---- MODULE Spec2Model ----
(***************************************************************************)
(* Session core of probe-rs (src/probe-rs/src/session.rs).                 *)
(*                                                                         *)
(* A Session is a handle on one Rc<RefCell<InnerSession>>.  Every public   *)
(* operation opens its access windows with RefCell::borrow (shared) or     *)
(* RefCell::borrow_mut (exclusive); the window is the lifetime of the      *)
(* guard.  While a window is open the operation calls into collaborator    *)
(* code (the communication interface, the ROM table parser, the tracing    *)
(* component, Clone impls); a collaborator that holds a clone of the       *)
(* handle (a Core does) can begin another public operation from there.     *)
(* The model keeps the stack of public operations in flight; each          *)
(* operation is cut at the places where it acquires a guard.               *)
(***************************************************************************)
EXTENDS Integers, Sequences, FiniteSets, TLC

\* Bounds of the model.
MaxDepth == 2   \* public operations in flight at once (re-entered calls)
MaxAPs == 2     \* access ports the hardware can enumerate
MaxHandles == 2 \* Session clones and Core handles the callers keep alive

VARIABLES
    inner,   \* Option<InnerSession>: <<>> before Session::new, else <<[target, architecture_session]>>
    flag,    \* RefCell borrow flag of Session::inner: -1 one writer, k >= 0 readers
    stack,   \* the public operations in flight, outermost first
    last,    \* what the most recent finished call returned (observation)
    strong,  \* strong count of the Rc behind Session::inner
    handles  \* what the callers hold: [sessions, cores], the live Session clones and Core handles

vars == <<inner, flag, stack, last, strong, handles>>

----------------------------------------------------------------------------
\* Values

T1 == [core_type |-> "M4", memory_map |-> <<"0x20000000..0x20010000">>,
       flash_algorithms |-> <<"algo1">>]
T2 == [core_type |-> "M0", memory_map |-> <<"0x10000000..0x10004000">>,
       flash_algorithms |-> <<>>]
NoTarget == [core_type |-> "", memory_map |-> <<>>, flash_algorithms |-> <<>>]
Targets == {T1, T2}
CoreTypes == {"M0", "M4"}

\* TargetSelector (tagged union consumed by Session::new)
Unspecified(name) == [kind |-> "Unspecified", name |-> name, target |-> NoTarget]
Specified(t) == [kind |-> "Specified", name |-> "", target |-> t]
Auto == [kind |-> "Auto", name |-> "", target |-> NoTarget]
NoSelector == [kind |-> "", name |-> "", target |-> NoTarget]
Names == {"nrf51", "unknown"}
Selectors == {Unspecified(nm) : nm \in Names} \cup {Specified(t) : t \in Targets} \cup {Auto}

\* Memory handles
NoMem == [kind |-> "none", port |-> 0]
DedicatedMem == [kind |-> "dedicated", port |-> 0]
APMem(p) == [kind |-> "ap", port |-> p]
CallerMem == [kind |-> "caller", port |-> 0]

\* Indices a caller can pass (the largest is past every enumeration)
Idx == 0..MaxAPs
Ports == 0..(MaxAPs - 1)
PortSeqs == UNION {{s \in [1..k -> Ports] : \A i, j \in 1..k : i # j => s[i] # s[j]} : k \in 0..MaxAPs}

\* What the hardware answers during one call: whether the interface has a
\* dedicated memory interface, whether the access-port enumeration succeeds,
\* and the enumeration (ports in the order the hardware returns them).
HwStates == {h \in [dedicated : BOOLEAN, ok : BOOLEAN, maps : PortSeqs] : h.ok \/ h.maps = <<>>}

\* Result<_, Error> of a call, or the panic that ended it
Res(tag, err, n, mem, ct, data) ==
    [tag |-> tag, err |-> err, n |-> n, mem |-> mem, ct |-> ct, data |-> data]
OkUnit == Res("Ok", "", 0, NoMem, "", <<>>)
OkData(d) == Res("Ok", "", 0, NoMem, "", d)
OkMem(m) == Res("Ok", "", 0, m, "", <<>>)
OkCore(ct, m, n) == Res("Ok", "", n, m, ct, <<>>)
Err(e) == Res("Err", e, 0, NoMem, "", <<>>)
ErrN(e, n) == Res("Err", e, n, NoMem, "", <<>>)
Panicked(e) == Res("Panic", e, 0, NoMem, "", <<>>)
NoRes == Res("None", "", 0, NoMem, "", <<>>)

BorrowConflicts == {"BorrowError", "BorrowMutError"}

Arg(n, mem, ct, sel) == [n |-> n, mem |-> mem, ct |-> ct, sel |-> sel]
NoArg == Arg(0, NoMem, "", NoSelector)

\* Observation of a finished call: the operation and its arguments, what it
\* returned, the collaborator calls it made (q), the hardware answers it saw
\* (hw), how deep in the stack it ran (depth, 1 = begun with nothing in
\* flight) and the operation whose window it was begun in (outer); what the
\* other collaborators answered (answers: the chip identification for new,
\* the directory walk and the trace configuration for setup_tracing) and the
\* port whose base address the directory walk was given (base).
NoCall == [op |-> "", arg |-> NoArg, res |-> NoRes, q |-> <<>>, hw |-> <<>>,
           depth |-> 0, outer |-> "", prev |-> -1, answers |-> <<>>, base |-> -1]

----------------------------------------------------------------------------
\* Session::new

\* crate::config::registry (external collaborator)
get_target_by_name(name) ==
    IF name = "nrf51" THEN [ok |-> TRUE, target |-> T1, err |-> ""]
    ELSE [ok |-> FALSE, target |-> NoTarget, err |-> "TargetNotFound"]

get_target_by_chip_info(chip) ==
    IF chip = "nrf51-id" THEN [ok |-> TRUE, target |-> T1, err |-> ""]
    ELSE [ok |-> FALSE, target |-> NoTarget, err |-> "TargetNotFound"]

\* What reading the identification registers of the chip on the probe would
\* give: an identifier the registry knows, one it does not, or nothing.
Chips == {"nrf51-id", "unknown-id", "None"}

\* let arm_chip = None;
arm_chip == "None"

\* (mutant) autodetection that falls back to a default target
ResolveSelector_AutoFallback(sel) ==
    CASE sel.kind = "Unspecified" -> get_target_by_name(sel.name)
      [] sel.kind = "Specified" -> [ok |-> TRUE, target |-> sel.target, err |-> ""]
      [] OTHER -> [ok |-> TRUE, target |-> T1, err |-> ""]

\* (mutant) a registry miss falls back to a default target
ResolveSelector_Fallback(sel) ==
    CASE sel.kind = "Unspecified" ->
            IF get_target_by_name(sel.name).ok THEN get_target_by_name(sel.name)
            ELSE [ok |-> TRUE, target |-> T1, err |-> ""]
      [] sel.kind = "Specified" -> [ok |-> TRUE, target |-> sel.target, err |-> ""]
      [] OTHER -> [ok |-> FALSE, target |-> NoTarget, err |-> "ChipAutodetectFailed"]

\* the match on the TargetSelector
ResolveSelector(sel) ==
    CASE sel.kind = "Unspecified" -> get_target_by_name(sel.name)
      [] sel.kind = "Specified" -> [ok |-> TRUE, target |-> sel.target, err |-> ""]
      [] OTHER ->
            IF arm_chip # "None" THEN get_target_by_chip_info(arm_chip)
            ELSE [ok |-> FALSE, target |-> NoTarget, err |-> "ChipAutodetectFailed"]

NewInner(target) ==
    <<[target |-> target, architecture_session |-> [kind |-> "Arm", tracing |-> FALSE]]>>

Init ==
    /\ inner = <<>>
    /\ flag = 0
    /\ stack = <<>>
    /\ last = NoCall
    /\ strong = 0
    /\ handles = [sessions |-> 0, cores |-> 0]

\* Session::new(probe, sel) on a probe whose chip would identify as `chip`
Session_new(sel, chip) ==
    /\ inner = <<>>
    /\ LET r == ResolveSelector(sel) IN
        /\ inner' = IF r.ok THEN NewInner(r.target) ELSE <<>>
        /\ last' = [NoCall EXCEPT !.op = "new", !.arg = Arg(0, NoMem, "", sel),
                                  !.res = IF r.ok THEN OkUnit ELSE Err(r.err),
                                  !.depth = 1, !.answers = <<chip>>]
        /\ strong' = IF r.ok THEN 1 ELSE 0
        /\ handles' = [sessions |-> IF r.ok THEN 1 ELSE 0, cores |-> 0]
    /\ UNCHANGED <<flag, stack>>

new == \E sel \in Selectors, chip \in Chips : Session_new(sel, chip)

----------------------------------------------------------------------------
\* The operations in flight

\* Each acquisition of a guard starts a phase of the operation: the frame is
\* first `at = "borrow"` (about to call borrow / borrow_mut), then
\* `at = "in"` (guard held, calling into collaborator code).
SharedPhases == {"list_cores", "target", "best"}
ExclPhases == {"memory", "final", "swv", "tracing"}
WindowKind(ph) == IF ph \in SharedPhases THEN "shared" ELSE "excl"

Frame(op, ph, arg, prev) ==
    [op |-> op, ph |-> ph, at |-> "borrow", arg |-> arg, ct |-> "", mem |-> NoMem,
     q |-> <<>>, hw |-> <<>>, prev |-> prev]

Top == stack[Len(stack)]
Pop == SubSeq(stack, 1, Len(stack) - 1)
SetTop(f) == [stack EXCEPT ![Len(stack)] = f]
Holds(f) == IF f.at = "in" THEN WindowKind(f.ph) ELSE "none"

\* The public operations, each with the phase it starts in
PublicCalls ==
    {<<"list_cores", "list_cores", NoArg>>,
     <<"flash_algorithms", "target", NoArg>>,
     <<"memory_map", "target", NoArg>>,
     <<"attach_to_best_memory", "best", NoArg>>,
     <<"read_swv", "swv", NoArg>>}
    \cup {<<"attach_to_memory", "memory", Arg(id, NoMem, "", NoSelector)>> : id \in Idx}
    \cup {<<"attach_to_core", "list_cores", Arg(n, NoMem, "", NoSelector)>> : n \in Idx}
    \cup {<<"attach_to_specific_core", "memory", Arg(0, NoMem, ct, NoSelector)>> : ct \in CoreTypes}
    \cup {<<"attach_to_core_with_specific_memory", "list_cores", Arg(n, m, "", NoSelector)>> :
            n \in Idx, m \in {NoMem, CallerMem}}
    \cup {<<"setup_tracing", "tracing", Arg(id, NoMem, "", NoSelector)>> : id \in Idx}

\* A call can begin when nothing is in flight, or from collaborator code
\* called inside the window of the operation on top.
CanCall ==
    /\ inner # <<>>
    /\ Len(stack) < MaxDepth
    /\ stack # <<>> => Top.at = "in"

\* The port the previous finished call bound, if that call was a successful
\* attach_to_memory(id) on an access port (observation used to compare two
\* successive calls).
PrevPort(c) ==
    IF /\ c[1] = "attach_to_memory" /\ last.op = "attach_to_memory"
       /\ last.arg.n = c[3].n /\ last.res.tag = "Ok" /\ last.res.mem.kind = "ap"
    THEN last.res.mem.port ELSE -1

\* The operations that build a Core around self.clone()
AttachOps == {"attach_to_core", "attach_to_specific_core", "attach_to_core_with_specific_memory"}

\* (mutant) the Core is given no handle of its own
SessionClone_NotCounted == strong

\* self.clone(): one more strong reference to the aggregate
SessionClone == strong + 1

\* The clones made for a Core that is not built yet: self.clone() is
\* evaluated before the memory is resolved.
HasTempClone(f) == f.op \in AttachOps /\ f.ph \in {"memory", "final"}
TempClones == Cardinality({i \in 1..Len(stack) : HasTempClone(stack[i])})

Live == handles.sessions + handles.cores

\* The clone made for a Core is dropped with the error (`?`)
TempDropped == strong' = strong - 1 /\ UNCHANGED handles

\* Ok(core) reaches the caller, who keeps the Core or drops it at once
CoreReturned ==
    \/ /\ Live < MaxHandles
       /\ handles' = [handles EXCEPT !.cores = @ + 1]
       /\ strong' = strong
    \/ TempDropped

Begin ==
    /\ CanCall
    /\ \E c \in PublicCalls :
        /\ stack' = Append(stack, Frame(c[1], c[2], c[3], PrevPort(c)))
        /\ strong' = IF c[1] = "attach_to_specific_core" THEN SessionClone ELSE strong
    /\ last' = NoCall
    /\ UNCHANGED <<inner, flag, handles>>

\* The operation in whose window the call on top was begun
Outer == IF Len(stack) > 1 THEN stack[Len(stack) - 1].op ELSE ""

\* The call on top returns `res` to its caller.
Return(f, res, q, hw) ==
    /\ stack' = Pop
    /\ last' = [op |-> f.op, arg |-> f.arg, res |-> res, q |-> q, hw |-> hw,
                depth |-> Len(stack), outer |-> Outer, prev |-> f.prev,
                answers |-> <<>>, base |-> -1]

\* The call on top panics: the stack unwinds, dropping every guard and
\* every clone made for a Core not yet built.
Panic(f, msg, q, hw) ==
    /\ stack' = <<>>
    /\ flag' = 0
    /\ strong' = strong - TempClones
    /\ UNCHANGED handles
    /\ last' = [op |-> f.op, arg |-> f.arg, res |-> Panicked(msg), q |-> q, hw |-> hw,
                depth |-> Len(stack), outer |-> Outer, prev |-> f.prev,
                answers |-> <<>>, base |-> -1]
    /\ UNCHANGED inner

\* Drop of the guard (Ref / RefMut) of the phase `ph`
\* (mutant) a guard that is never dropped
Release_Leak(ph) == flag

Release(ph) == IF WindowKind(ph) = "shared" THEN flag - 1 ELSE 0

\* (mutant) a borrow that does not look at the writer flag
CanBorrow_Unchecked == TRUE
\* RefCell::borrow: fails when a writer holds the cell
CanBorrow == flag >= 0
\* (mutant) a borrow_mut that only refuses a second writer
CanBorrowMut_ReadersIgnored == flag >= 0
\* RefCell::borrow_mut: fails when anyone holds the cell
CanBorrowMut == flag = 0

borrow ==
    /\ stack # <<>>
    /\ Top.at = "borrow"
    /\ WindowKind(Top.ph) = "shared"
    /\ IF CanBorrow
       THEN /\ flag' = flag + 1
            /\ stack' = SetTop([Top EXCEPT !.at = "in"])
            /\ UNCHANGED <<inner, last, strong, handles>>
       ELSE Panic(Top, "BorrowError", Top.q, Top.hw)

borrow_mut ==
    /\ stack # <<>>
    /\ Top.at = "borrow"
    /\ WindowKind(Top.ph) = "excl"
    /\ IF CanBorrowMut
       THEN /\ flag' = -1
            /\ stack' = SetTop([Top EXCEPT !.at = "in"])
            /\ UNCHANGED <<inner, last, strong, handles>>
       ELSE Panic(Top, "BorrowMutError", Top.q, Top.hw)

InWindow(op, ph) ==
    /\ stack # <<>>
    /\ Top.op = op
    /\ Top.ph = ph
    /\ Top.at = "in"

----------------------------------------------------------------------------
\* Operations on the Target

\* CoreList::new(vec![target.core_type.clone()])
\* (mutant) a second core of the same type is listed
ListCores_Two(in) == <<in.target.core_type, in.target.core_type>>

ListCores(in) == <<in.target.core_type>>

\* (mutant) a lookup that clamps the index to the list
GetCore_Clamped(cores, n) == IF n < Len(cores) THEN <<cores[n + 1]>> ELSE <<cores[Len(cores)]>>

\* CoreList::get(n)
GetCore(cores, n) == IF n < Len(cores) THEN <<cores[n + 1]>> ELSE <<>>

list_cores ==
    /\ InWindow("list_cores", "list_cores")
    /\ flag' = Release("list_cores")
    /\ Return(Top, OkData(ListCores(inner[1])), Top.q, Top.hw)
    /\ UNCHANGED <<inner, strong, handles>>

flash_algorithms ==
    /\ InWindow("flash_algorithms", "target")
    /\ flag' = Release("target")
    /\ Return(Top, OkData(inner[1].target.flash_algorithms), Top.q, Top.hw)
    /\ UNCHANGED <<inner, strong, handles>>

\* (mutant) the memory map is moved out of the target instead of copied
memory_map_Take ==
    /\ InWindow("memory_map", "target")
    /\ flag' = Release("target")
    /\ Return(Top, OkData(inner[1].target.memory_map), Top.q, Top.hw)
    /\ inner' = <<[inner[1] EXCEPT !.target.memory_map = <<>>]>>
    /\ UNCHANGED <<strong, handles>>

memory_map ==
    /\ InWindow("memory_map", "target")
    /\ flag' = Release("target")
    /\ Return(Top, OkData(inner[1].target.memory_map), Top.q, Top.hw)
    /\ UNCHANGED <<inner, strong, handles>>

list_memories ==
    /\ CanCall
    /\ last' = [NoCall EXCEPT !.op = "list_memories", !.res = OkData(<<>>),
                              !.depth = Len(stack) + 1,
                              !.outer = IF stack = <<>> THEN "" ELSE Top.op]
    /\ UNCHANGED <<inner, flag, stack, strong, handles>>

----------------------------------------------------------------------------
\* Memory access resolver

\* (mutant) the enumeration is made before the dedicated interface is asked for
AttachToMemory_EnumerateFirst(h, id) ==
    IF ~h.ok
    THEN [res |-> Err("AccessPortError"), q |-> <<"memory_access_ports">>]
    ELSE IF h.dedicated
    THEN [res |-> OkMem(DedicatedMem),
          q |-> <<"memory_access_ports", "dedicated_memory_interface">>]
    ELSE IF id >= Len(h.maps)
    THEN [res |-> Panicked("IndexOutOfBounds"),
          q |-> <<"memory_access_ports", "dedicated_memory_interface">>]
    ELSE [res |-> OkMem(APMem(h.maps[id + 1])),
          q |-> <<"memory_access_ports", "dedicated_memory_interface">>]

\* (mutant) the port bound by the previous call with this id is reused
AttachToMemory_Cached(h, id) ==
    IF h.dedicated
    THEN [res |-> OkMem(DedicatedMem), q |-> <<"dedicated_memory_interface">>]
    ELSE IF Top.op = "attach_to_memory" /\ Top.prev # -1
    THEN [res |-> OkMem(APMem(Top.prev)), q |-> <<"dedicated_memory_interface">>]
    ELSE IF ~h.ok
    THEN [res |-> Err("AccessPortError"),
          q |-> <<"dedicated_memory_interface", "memory_access_ports">>]
    ELSE IF id >= Len(h.maps)
    THEN [res |-> Panicked("IndexOutOfBounds"),
          q |-> <<"dedicated_memory_interface", "memory_access_ports">>]
    ELSE [res |-> OkMem(APMem(h.maps[id + 1])),
          q |-> <<"dedicated_memory_interface", "memory_access_ports">>]

\* (mutant) the handle is bound to the index itself, not to the port found there
AttachToMemory_IndexAsPort(h, id) ==
    IF h.dedicated
    THEN [res |-> OkMem(DedicatedMem), q |-> <<"dedicated_memory_interface">>]
    ELSE IF ~h.ok
    THEN [res |-> Err("AccessPortError"),
          q |-> <<"dedicated_memory_interface", "memory_access_ports">>]
    ELSE IF id >= Len(h.maps)
    THEN [res |-> Panicked("IndexOutOfBounds"),
          q |-> <<"dedicated_memory_interface", "memory_access_ports">>]
    ELSE [res |-> OkMem(APMem(id + 1)),
          q |-> <<"dedicated_memory_interface", "memory_access_ports">>]

\* Body of attach_to_memory(id) under its guard: [res, q]
\* (mutant) a failed enumeration is tried a second time
AttachToMemory_Retry(h, id) ==
    IF h.dedicated
    THEN [res |-> OkMem(DedicatedMem), q |-> <<"dedicated_memory_interface">>]
    ELSE IF ~h.ok
    THEN [res |-> Err("AccessPortError"),
          q |-> <<"dedicated_memory_interface", "memory_access_ports", "memory_access_ports">>]
    ELSE IF id >= Len(h.maps)
    THEN [res |-> Panicked("IndexOutOfBounds"),
          q |-> <<"dedicated_memory_interface", "memory_access_ports">>]
    ELSE [res |-> OkMem(APMem(h.maps[id + 1])),
          q |-> <<"dedicated_memory_interface", "memory_access_ports">>]

AttachToMemory(h, id) ==
    IF h.dedicated
    THEN [res |-> OkMem(DedicatedMem), q |-> <<"dedicated_memory_interface">>]
    ELSE IF ~h.ok
    THEN [res |-> Err("AccessPortError"),
          q |-> <<"dedicated_memory_interface", "memory_access_ports">>]
    ELSE IF id >= Len(h.maps)
    THEN [res |-> Panicked("IndexOutOfBounds"),
          q |-> <<"dedicated_memory_interface", "memory_access_ports">>]
    ELSE [res |-> OkMem(APMem(h.maps[id + 1])),
          q |-> <<"dedicated_memory_interface", "memory_access_ports">>]

\* (mutant) the first enumerated port is used when there is one
AttachToBestMemory_FirstPort(h) ==
    IF h.dedicated
    THEN [res |-> OkMem(DedicatedMem), q |-> <<"dedicated_memory_interface">>]
    ELSE IF h.ok /\ Len(h.maps) >= 1
    THEN [res |-> OkMem(APMem(h.maps[1])),
          q |-> <<"dedicated_memory_interface", "memory_access_ports">>]
    ELSE [res |-> OkMem(APMem(0)),
          q |-> <<"dedicated_memory_interface", "memory_access_ports">>]

\* Body of attach_to_best_memory() under its guard: [res, q]
AttachToBestMemory(h) ==
    IF h.dedicated
    THEN [res |-> OkMem(DedicatedMem), q |-> <<"dedicated_memory_interface">>]
    ELSE [res |-> OkMem(APMem(0)), q |-> <<"dedicated_memory_interface">>]

attach_to_memory ==
    /\ InWindow("attach_to_memory", "memory")
    /\ \E h \in HwStates :
        LET r == AttachToMemory(h, Top.arg.n) IN
        IF r.res.tag = "Panic"
        THEN Panic(Top, r.res.err, r.q, <<h>>)
        ELSE /\ flag' = Release("memory")
             /\ Return(Top, r.res, r.q, <<h>>)
             /\ UNCHANGED <<inner, strong, handles>>

attach_to_best_memory ==
    /\ InWindow("attach_to_best_memory", "best")
    /\ \E h \in HwStates :
        LET r == AttachToBestMemory(h) IN
        /\ flag' = Release("best")
        /\ Return(Top, r.res, r.q, <<h>>)
        /\ UNCHANGED <<inner, strong, handles>>

----------------------------------------------------------------------------
\* Core attachment

\* self.list_cores().get(n).ok_or_else(|| Error::CoreNotFound(n))?
attach_to_core_list_cores ==
    /\ InWindow("attach_to_core", "list_cores")
    /\ flag' = Release("list_cores")
    /\ LET c == GetCore(ListCores(inner[1]), Top.arg.n) IN
        IF c = <<>>
        THEN /\ Return(Top, ErrN("CoreNotFound", Top.arg.n), Top.q, Top.hw)
             /\ UNCHANGED <<strong, handles>>
        ELSE /\ stack' = SetTop([Top EXCEPT !.ct = c[1], !.ph = "memory", !.at = "borrow"])
             /\ strong' = SessionClone
             /\ UNCHANGED <<last, handles>>
    /\ UNCHANGED inner

\* .attach(self.clone(), self.attach_to_memory(n)?, n)
attach_to_core_attach_to_memory ==
    /\ InWindow("attach_to_core", "memory")
    /\ \E h \in HwStates :
        LET r == AttachToMemory(h, Top.arg.n) IN
        CASE r.res.tag = "Panic" -> Panic(Top, r.res.err, r.q, <<h>>)
          [] r.res.tag = "Err" ->
                /\ flag' = Release("memory")
                /\ Return(Top, r.res, r.q, <<h>>)
                /\ TempDropped
                /\ UNCHANGED inner
          [] OTHER ->
                /\ flag' = Release("memory")
                /\ stack' = SetTop([Top EXCEPT !.mem = r.res.mem, !.q = r.q, !.hw = <<h>>,
                                               !.ph = "final", !.at = "borrow"])
                /\ UNCHANGED <<inner, last, strong, handles>>

\* match self.inner.borrow_mut().architecture_session { Arm(_) => Ok(core) }
\* (mutant) attaching a core re-initialises the architecture session
attach_to_core_Reset ==
    /\ InWindow("attach_to_core", "final")
    /\ flag' = Release("final")
    /\ Return(Top, OkCore(Top.ct, Top.mem, Top.arg.n), Top.q, Top.hw)
    /\ CoreReturned
    /\ inner' = <<[inner[1] EXCEPT !.architecture_session.tracing = FALSE]>>

attach_to_core ==
    /\ InWindow("attach_to_core", "final")
    /\ flag' = Release("final")
    /\ Return(Top, OkCore(Top.ct, Top.mem, Top.arg.n), Top.q, Top.hw)
    /\ CoreReturned
    /\ UNCHANGED inner

\* (mutant) the core type of the target is used instead of the caller's
attach_to_specific_core_TargetCore ==
    /\ InWindow("attach_to_specific_core", "memory")
    /\ \E h \in HwStates :
        LET r == AttachToMemory(h, 0) IN
        CASE r.res.tag = "Panic" -> Panic(Top, r.res.err, r.q, <<h>>)
          [] r.res.tag = "Err" ->
                /\ flag' = Release("memory")
                /\ Return(Top, r.res, r.q, <<h>>)
                /\ TempDropped
                /\ UNCHANGED inner
          [] OTHER ->
                /\ flag' = Release("memory")
                /\ Return(Top, OkCore(inner[1].target.core_type, r.res.mem, 0), r.q, <<h>>)
                /\ CoreReturned
                /\ UNCHANGED inner

attach_to_specific_core ==
    /\ InWindow("attach_to_specific_core", "memory")
    /\ \E h \in HwStates :
        LET r == AttachToMemory(h, 0) IN
        CASE r.res.tag = "Panic" -> Panic(Top, r.res.err, r.q, <<h>>)
          [] r.res.tag = "Err" ->
                /\ flag' = Release("memory")
                /\ Return(Top, r.res, r.q, <<h>>)
                /\ TempDropped
                /\ UNCHANGED inner
          [] OTHER ->
                /\ flag' = Release("memory")
                /\ Return(Top, OkCore(Top.arg.ct, r.res.mem, 0), r.q, <<h>>)
                /\ CoreReturned
                /\ UNCHANGED inner

\* list_cores().get(n)...? then, with a caller-supplied memory, attach at once
attach_to_core_with_specific_memory_list_cores ==
    /\ InWindow("attach_to_core_with_specific_memory", "list_cores")
    /\ flag' = Release("list_cores")
    /\ LET c == GetCore(ListCores(inner[1]), Top.arg.n) IN
        CASE c = <<>> ->
                /\ Return(Top, ErrN("CoreNotFound", Top.arg.n), Top.q, Top.hw)
                /\ UNCHANGED <<strong, handles>>
          [] c # <<>> /\ Top.arg.mem # NoMem ->
                /\ Return(Top, OkCore(c[1], Top.arg.mem, Top.arg.n), Top.q, Top.hw)
                /\ \/ /\ Live < MaxHandles
                      /\ handles' = [handles EXCEPT !.cores = @ + 1]
                      /\ strong' = SessionClone
                   \/ UNCHANGED <<strong, handles>>
          [] OTHER ->
                /\ stack' = SetTop([Top EXCEPT !.ct = c[1], !.ph = "memory", !.at = "borrow"])
                /\ strong' = SessionClone
                /\ UNCHANGED <<last, handles>>
    /\ UNCHANGED inner

\* (mutant) the None arm asks attach_to_best_memory
DefaultMemory_Best(h) == AttachToBestMemory(h)

\* The index the None arm resolves memory with: None => self.attach_to_memory(0)?
DefaultMemory(h) == AttachToMemory(h, 0)

attach_to_core_with_specific_memory ==
    /\ InWindow("attach_to_core_with_specific_memory", "memory")
    /\ \E h \in HwStates :
        LET r == DefaultMemory(h) IN
        CASE r.res.tag = "Panic" -> Panic(Top, r.res.err, r.q, <<h>>)
          [] r.res.tag = "Err" ->
                /\ flag' = Release("memory")
                /\ Return(Top, r.res, r.q, <<h>>)
                /\ TempDropped
                /\ UNCHANGED inner
          [] OTHER ->
                /\ flag' = Release("memory")
                /\ Return(Top, OkCore(Top.ct, r.res.mem, Top.arg.n), r.q, <<h>>)
                /\ CoreReturned
                /\ UNCHANGED inner

----------------------------------------------------------------------------
\* Tracing

SwvResults == {OkData(<<>>), OkData(<<"swv">>), Err("CommunicationError")}

read_swv ==
    /\ InWindow("read_swv", "swv")
    /\ \E r \in SwvResults :
        /\ flag' = Release("swv")
        /\ Return(Top, r, <<"read_swv">>, Top.hw)
    /\ UNCHANGED <<inner, strong, handles>>

\* Body of setup_tracing(core) under its guard, for the answers of the
\* hardware (h), of RomTable::try_parse (rom) and of component::setup_tracing
\* (tr): [res, q]
\* (mutant) a directory that does not parse is ignored
SetupTracing_IgnoreParse(h, id, rom, tr) ==
    IF ~h.ok
    THEN [res |-> Err("AccessPortError"), q |-> <<"memory_access_ports">>, base |-> -1]
    ELSE IF id >= Len(h.maps)
    THEN [res |-> Panicked("IndexOutOfBounds"), q |-> <<"memory_access_ports">>, base |-> -1]
    ELSE [res |-> IF tr # "ok" THEN Err(tr) ELSE OkUnit,
          q |-> <<"memory_access_ports", "try_parse", "setup_tracing">>,
          base |-> h.maps[id + 1]]

SetupTracing(h, id, rom, tr) ==
    IF ~h.ok
    THEN [res |-> Err("AccessPortError"), q |-> <<"memory_access_ports">>, base |-> -1]
    ELSE IF id >= Len(h.maps)
    THEN [res |-> Panicked("IndexOutOfBounds"), q |-> <<"memory_access_ports">>, base |-> -1]
    ELSE IF rom # "ok"
    THEN [res |-> Err("ArchitectureSpecific"), q |-> <<"memory_access_ports", "try_parse">>,
          base |-> h.maps[id + 1]]
    ELSE IF tr # "ok"
    THEN [res |-> Err(tr), q |-> <<"memory_access_ports", "try_parse", "setup_tracing">>,
          base |-> h.maps[id + 1]]
    ELSE [res |-> OkUnit, q |-> <<"memory_access_ports", "try_parse", "setup_tracing">>,
          base |-> h.maps[id + 1]]

setup_tracing ==
    /\ InWindow("setup_tracing", "tracing")
    /\ \E h \in HwStates, rom \in {"ok", "malformed"}, tr \in {"ok", "TraceSetupFailed"} :
        LET r == SetupTracing(h, Top.arg.n, rom, tr) IN
        IF r.res.tag = "Panic"
        THEN Panic(Top, r.res.err, r.q, <<h>>)
        ELSE /\ flag' = Release("tracing")
             /\ stack' = Pop
             /\ last' = [op |-> Top.op, arg |-> Top.arg, res |-> r.res, q |-> r.q,
                         hw |-> <<h>>, depth |-> Len(stack), outer |-> Outer,
                         prev |-> Top.prev, answers |-> <<rom, tr>>, base |-> r.base]
             /\ inner' = IF r.res.tag = "Ok"
                         THEN <<[inner[1] EXCEPT !.architecture_session.tracing = TRUE]>>
                         ELSE inner
             /\ UNCHANGED <<strong, handles>>

----------------------------------------------------------------------------
\* Lifetime of the handles (between calls)

\* The aggregate lives as long as the Rc has a strong reference
AfterDrop(n) == IF n = 0 THEN <<>> ELSE inner

\* #[derive(Clone)] on Session: a caller clones its handle
clone ==
    /\ inner # <<>>
    /\ stack = <<>>
    /\ handles.sessions >= 1
    /\ Live < MaxHandles
    /\ strong' = SessionClone
    /\ handles' = [handles EXCEPT !.sessions = @ + 1]
    /\ last' = [NoCall EXCEPT !.op = "clone"]
    /\ UNCHANGED <<inner, flag, stack>>

\* A caller drops a Session handle
drop_session ==
    /\ stack = <<>>
    /\ handles.sessions >= 1
    /\ strong' = strong - 1
    /\ handles' = [handles EXCEPT !.sessions = @ - 1]
    /\ inner' = AfterDrop(strong')
    /\ last' = [NoCall EXCEPT !.op = "drop_session"]
    /\ UNCHANGED <<flag, stack>>

\* A caller drops a Core, and with it the Session clone the Core holds
drop_core ==
    /\ stack = <<>>
    /\ handles.cores >= 1
    /\ strong' = strong - 1
    /\ handles' = [handles EXCEPT !.cores = @ - 1]
    /\ inner' = AfterDrop(strong')
    /\ last' = [NoCall EXCEPT !.op = "drop_core"]
    /\ UNCHANGED <<flag, stack>>

----------------------------------------------------------------------------
Next ==
    \/ new
    \/ Begin
    \/ borrow
    \/ borrow_mut
    \/ list_cores
    \/ flash_algorithms
    \/ memory_map
    \/ list_memories
    \/ attach_to_memory
    \/ attach_to_best_memory
    \/ attach_to_core_list_cores
    \/ attach_to_core_attach_to_memory
    \/ attach_to_core
    \/ attach_to_specific_core
    \/ attach_to_core_with_specific_memory_list_cores
    \/ attach_to_core_with_specific_memory
    \/ read_swv
    \/ setup_tracing
    \/ clone
    \/ drop_session
    \/ drop_core

Spec == Init /\ [][Next]_vars

----------------------------------------------------------------------------
\* Properties

Has(s, x) == \E i \in 1..Len(s) : s[i] = x
Holders == {i \in 1..Len(stack) : Holds(stack[i]) # "none"}
ExclusiveHolders == {i \in 1..Len(stack) : Holds(stack[i]) = "excl"}
SharedHolders == {i \in 1..Len(stack) : Holds(stack[i]) = "shared"}
Conflicted(c) == c.res.tag = "Panic" /\ c.res.err \in BorrowConflicts
ValidCore(n) == inner # <<>> /\ n < Len(ListCores(inner[1]))

\* The operation on top is about to acquire a guard that conflicts with a
\* window held by an operation below it.
Conflict ==
    /\ stack # <<>>
    /\ Top.at = "borrow"
    /\ IF WindowKind(Top.ph) = "shared" THEN ExclusiveHolders # {} ELSE Holders # {}

\* C1: while an operation holds an access window, a conflicting operation
\* begun through any clone of the handle (also re-entered on the same thread)
\* fails fast with a borrow-conflict error: it is never left waiting and the
\* Target and ArchitectureSession are as before the attempt; at most one
\* exclusive window is open in every reachable state.
C1_FailFast ==
    /\ [](Cardinality(ExclusiveHolders) <= 1)
    /\ [](Conflict => ENABLED (borrow \/ borrow_mut))
    /\ [][Conflict =>
            /\ stack' = <<>>
            /\ last'.op = Top.op
            /\ Conflicted(last')
            /\ inner' = inner]_vars

\* attach_to_core(0), begun in the window of read_swv(), ended in a borrow conflict
C1_Witness ==
    /\ last.op = "attach_to_core"
    /\ last.arg.n = 0
    /\ last.outer = "read_swv"
    /\ Conflicted(last)
    /\ stack = <<>>

\* C2 (as stated): every public operation that touches the Target or the
\* ArchitectureSession takes an exclusive window, so no two of them ever hold
\* a window on the Session at the same time.
C2_AllExclusive == Cardinality(Holders) <= 1

\* C2 (amended): every such operation works inside an access window that
\* the borrow flag accounts for.  The windows of attach_to_memory, read_swv,
\* setup_tracing and of the memory and final steps of the attach_to_core
\* family are exclusive: while one is open no other window is open.  The
\* windows of list_cores (also inside the attach_to_core family),
\* flash_algorithms, memory_map and attach_to_best_memory are shared: several
\* can be open at once, never together with an exclusive one.
C2_Windows ==
    /\ \A i, j \in Holders : i # j => Holds(stack[i]) = "shared" /\ Holds(stack[j]) = "shared"
    /\ flag = IF ExclusiveHolders # {} THEN -1 ELSE Cardinality(SharedHolders)
    /\ \A i \in 1..Len(stack) :
        /\ stack[i].op \in {"list_cores", "flash_algorithms", "memory_map", "attach_to_best_memory"}
            => WindowKind(stack[i].ph) = "shared"
        /\ stack[i].op \in {"attach_to_memory", "attach_to_specific_core", "read_swv", "setup_tracing"}
            => WindowKind(stack[i].ph) = "excl"
        /\ i < Len(stack) => Holds(stack[i]) # "none"

\* two attach_to_best_memory() calls hold their windows at the same time
C2_Witness ==
    /\ Cardinality(Holders) = 2
    /\ \A i \in Holders : stack[i].op = "attach_to_best_memory"

\* C3: for n outside [0, list_cores().len()), attach_to_core(n) fails with
\* CoreNotFound(n), produces no Core, makes no access-port enumeration or other
\* hardware query, and leaves the Target and the ArchitectureSession unchanged
\* (a call that hits the borrow conflict of C1 ends in that conflict instead).
C3_CoreNotFound ==
    /\ [](last.op = "attach_to_core" /\ ~ValidCore(last.arg.n) /\ ~Conflicted(last)
            => /\ last.res = ErrN("CoreNotFound", last.arg.n)
               /\ last.q = <<>>
               /\ last.hw = <<>>)
    /\ [][stack # <<>> /\ Top.op = "attach_to_core" /\ ~ValidCore(Top.arg.n)
            => inner' = inner /\ Top.ph = "list_cores"]_vars

C3_Witness ==
    /\ last.op = "attach_to_core"
    /\ last.arg.n = MaxAPs
    /\ last.res = ErrN("CoreNotFound", MaxAPs)
    /\ flag = 0
LastHw == last.hw[1]
Enumerations(q) == Cardinality({i \in 1..Len(q) : q[i] = "memory_access_ports"})

\* C4: when the architecture session reports a dedicated memory interface,
\* attach_to_memory(id) returns that interface for every id and makes no
\* access-port enumeration during the call (last.hw is empty when the call
\* ended in the borrow conflict of C1 before asking the hardware).
C4_DedicatedPreferred ==
    last.op = "attach_to_memory" /\ last.hw # <<>> /\ LastHw.dedicated
        => /\ last.res = OkMem(DedicatedMem)
           /\ Enumerations(last.q) = 0

\* the dedicated interface returned for an index past every enumeration
C4_Witness ==
    /\ last.op = "attach_to_memory"
    /\ last.hw # <<>> /\ LastHw.dedicated
    /\ last.arg.n = MaxAPs
    /\ last.res = OkMem(DedicatedMem)

\* C5: with no dedicated interface and a successful enumeration holding
\* position id, attach_to_memory(id) returns a handle bound to the access
\* port at position id of the one enumeration made during that call (nothing
\* is kept from an earlier call), so two calls with the same id can bind to
\* different ports when the enumeration order changed in between.
C5_LiveEnumeration ==
    (/\ last.op = "attach_to_memory" /\ last.hw # <<>>
     /\ ~LastHw.dedicated /\ LastHw.ok /\ last.arg.n < Len(LastHw.maps))
        => /\ last.res = OkMem(APMem(LastHw.maps[last.arg.n + 1]))
           /\ Enumerations(last.q) = 1

\* attach_to_memory(id) bound another port than the attach_to_memory(id) before it
C5_Witness ==
    /\ last.op = "attach_to_memory"
    /\ last.res.tag = "Ok" /\ last.res.mem.kind = "ap"
    /\ last.prev # -1
    /\ last.prev # last.res.mem.port

FirstPortIsZero(h) == h.dedicated \/ (h.ok /\ Len(h.maps) >= 1 /\ h.maps[1] = 0)

\* C7 (as stated): in every hardware state attach_to_best_memory() and
\* attach_to_memory(0) have the same outcome.
C7_SameOutcome ==
    /\ last.op = "attach_to_best_memory" /\ last.depth = 1 /\ last.hw # <<>>
        => last.res = AttachToMemory(LastHw, 0).res
    /\ last.op = "attach_to_memory" /\ last.arg.n = 0 /\ last.hw # <<>>
        => last.res = AttachToBestMemory(LastHw).res

\* C7 (amended): called with no access window open, attach_to_best_memory()
\* and attach_to_memory(0) have the same outcome in the hardware states where
\* a dedicated interface is present or the enumeration succeeds with access
\* port 0 at position 0.
C7_SameOutcomeWhenFirstPortIsZero ==
    /\ last.op = "attach_to_best_memory" /\ last.depth = 1 /\ last.hw # <<>>
       /\ FirstPortIsZero(LastHw)
        => last.res = AttachToMemory(LastHw, 0).res
    /\ last.op = "attach_to_memory" /\ last.arg.n = 0 /\ last.hw # <<>>
       /\ FirstPortIsZero(LastHw)
        => last.res = AttachToBestMemory(LastHw).res

C7_Witness ==
    /\ last.op = "attach_to_best_memory" /\ last.depth = 1 /\ last.hw # <<>>
    /\ ~LastHw.dedicated /\ LastHw.ok /\ Len(LastHw.maps) = MaxAPs /\ LastHw.maps[1] = 0
    /\ last.res = OkMem(APMem(0))

\* C8: with no dedicated memory interface attach_to_best_memory() always
\* resolves to access port 0, whatever the hardware answers and whatever
\* came before (every call that got its window, also a re-entered one).
C8_BestIsPortZero ==
    last.op = "attach_to_best_memory" /\ last.hw # <<>> /\ ~LastHw.dedicated
        => /\ last.res = OkMem(APMem(0))
           /\ Enumerations(last.q) = 0

\* port 0 although the enumeration would fail
C8_Witness ==
    /\ last.op = "attach_to_best_memory"
    /\ last.hw # <<>> /\ ~LastHw.dedicated /\ ~LastHw.ok
    /\ last.res = OkMem(APMem(0))

WithSpecificMemory == "attach_to_core_with_specific_memory"
TargetCore == inner[1].target.core_type

\* C9 (as stated): attach_to_core_with_specific_memory(n, memory) validates n
\* like attach_to_core; with a caller-supplied handle the Core carries that
\* handle and nothing is resolved or enumerated; with none the Core carries
\* the memory attach_to_best_memory() returns in the same state.
C9_DefaultsToBestMemory ==
    last.op = WithSpecificMemory /\ ~Conflicted(last) =>
        IF ~ValidCore(last.arg.n) THEN last.res = ErrN("CoreNotFound", last.arg.n)
        ELSE IF last.arg.mem # NoMem
        THEN last.res = OkCore(TargetCore, last.arg.mem, last.arg.n) /\ last.q = <<>>
        ELSE /\ last.hw # <<>>
             /\ last.res = OkCore(TargetCore, AttachToBestMemory(LastHw).res.mem, last.arg.n)

\* C9 (amended): as stated, except that with no memory given the outcome is
\* that of attach_to_memory(0) in the same state: the Core carries the memory
\* it resolves, and the call ends with its error or its abort when it has one.
C9_DefaultsToMemoryZero ==
    last.op = WithSpecificMemory /\ ~Conflicted(last) =>
        IF ~ValidCore(last.arg.n) THEN last.res = ErrN("CoreNotFound", last.arg.n)
        ELSE IF last.arg.mem # NoMem
        THEN last.res = OkCore(TargetCore, last.arg.mem, last.arg.n) /\ last.q = <<>>
        ELSE /\ last.hw # <<>>
             /\ LET m == AttachToMemory(LastHw, 0).res IN
                last.res = IF m.tag = "Ok" THEN OkCore(TargetCore, m.mem, last.arg.n) ELSE m

\* no memory given, and the Core carries the first enumerated port, which is not port 0
C9_Witness ==
    /\ last.op = WithSpecificMemory
    /\ last.arg.mem = NoMem
    /\ last.res.tag = "Ok"
    /\ last.res.mem.kind = "ap" /\ last.res.mem.port # 0

\* C10: Session::new is all-or-nothing: it returns a Session holding the
\* resolved Target and the opened ArchitectureSession, or an error and no
\* Session; Unspecified(name) with a registry miss gives the registry's
\* target-not-found error and no Session.
C10_AllOrNothing ==
    /\ inner # <<>> =>
        /\ Len(inner) = 1
        /\ inner[1].target \in Targets
        /\ inner[1].architecture_session.kind = "Arm"
    /\ last.op = "new" =>
        LET sel == last.arg.sel IN
        /\ last.res.tag \in {"Ok", "Err"}
        /\ last.res.tag = "Err" => inner = <<>>
        /\ last.res.tag = "Ok" =>
            /\ sel.kind # "Auto"
            /\ inner = NewInner(IF sel.kind = "Specified" THEN sel.target
                                ELSE get_target_by_name(sel.name).target)
        /\ sel.kind = "Unspecified" /\ ~get_target_by_name(sel.name).ok
            => last.res = Err("TargetNotFound") /\ inner = <<>>

C10_Witness ==
    /\ last.op = "new"
    /\ last.arg.sel = Unspecified("unknown")
    /\ last.res = Err("TargetNotFound")
    /\ inner = <<>>
\* C11: Session::new with TargetSelector::Auto on a chip from which no
\* identifier can be obtained fails with ChipAutodetectFailed, falls back to
\* no target and produces no Session.
C11_AutodetectFailed ==
    last.op = "new" /\ last.arg.sel = Auto /\ last.answers = <<"None">>
        => /\ last.res = Err("ChipAutodetectFailed")
           /\ inner = <<>>

C11_Witness ==
    /\ last.op = "new"
    /\ last.arg.sel = Auto
    /\ last.answers = <<"None">>
    /\ last.res = Err("ChipAutodetectFailed")
    /\ inner = <<>>

\* C12 (as stated): Session::new with TargetSelector::Auto reads the chip
\* identifier from the hardware and, when one is obtained, asks the registry
\* by chip identity: a hit constructs the Session with that target, a miss
\* returns the registry's not-found error.
C12_AutodetectByChip ==
    last.op = "new" /\ last.arg.sel = Auto /\ last.answers # <<"None">> =>
        LET r == get_target_by_chip_info(last.answers[1]) IN
        IF r.ok THEN last.res = OkUnit /\ inner = NewInner(r.target)
        ELSE last.res = Err(r.err) /\ inner = <<>>

Tracing == inner # <<>> /\ inner[1].architecture_session.tracing

\* C13: the Target is set once by Session::new and never changes: what
\* list_cores, flash_algorithms and memory_map return is the core type,
\* flash algorithms and memory map of the target the aggregate was built
\* with (for TargetSelector::Specified the caller's target, unmodified),
\* and no step of a live aggregate changes its target.
C13_TargetFixed ==
    /\ [](/\ last.op = "new" /\ last.res.tag = "Ok" /\ last.arg.sel.kind = "Specified"
               => inner[1].target = last.arg.sel.target
          /\ last.op = "list_cores" /\ ~Conflicted(last)
               => last.res = OkData(<<inner[1].target.core_type>>)
          /\ last.op = "flash_algorithms" /\ ~Conflicted(last)
               => last.res = OkData(inner[1].target.flash_algorithms)
          /\ last.op = "memory_map" /\ ~Conflicted(last)
               => last.res = OkData(inner[1].target.memory_map))
    /\ [][inner # <<>> /\ inner' # <<>> => inner'[1].target = inner[1].target]_vars

C13_Witness ==
    /\ last.op = "memory_map"
    /\ last.res = OkData(T1.memory_map)
    /\ inner[1].target = T1
    /\ Tracing
    /\ handles.cores >= 1

\* C14: tracing only moves from unconfigured to configured: once
\* setup_tracing has succeeded no step of any operation resets it while
\* the aggregate lives.
C14_TracingMonotone ==
    [][Tracing /\ inner' # <<>> => inner'[1].architecture_session.tracing]_vars

C14_Witness ==
    /\ Tracing
    /\ last.op = "attach_to_core"
    /\ last.res.tag = "Ok"

\* C15: the aggregate is destroyed exactly when the last handle to it is
\* dropped, and Core handles count: each holds a Session clone, so an
\* aggregate whose Session handles are all gone lives on while a Core does.
C15_LastHandle ==
    /\ strong = Live + TempClones
    /\ inner # <<>> <=> Live > 0

C15_Witness ==
    /\ last.op = "drop_core"
    /\ Live = 0
    /\ inner = <<>>

EnumerationFailed(c) ==
    /\ c.op \in {"attach_to_memory", "attach_to_core"}
    /\ c.hw # <<>>
    /\ ~c.hw[1].dedicated
    /\ ~c.hw[1].ok

\* C16: on hardware without a dedicated memory interface whose enumeration
\* of access ports fails, attach_to_memory(id) and attach_to_core(n) for a
\* valid n return the enumeration error after exactly one enumeration
\* query; no handle is produced and the Session is left as it was (no guard
\* held, no clone kept, aggregate unchanged), so that a later attachment can
\* be made.
C16_EnumerationFailure ==
    /\ [](EnumerationFailed(last) =>
            /\ last.res = Err("AccessPortError")
            /\ Enumerations(last.q) = 1
            /\ strong = Live + TempClones
            /\ last.depth = 1 => CanCall /\ CanBorrowMut)
    /\ [][last' # last /\ EnumerationFailed(last')
            => inner' = inner /\ handles' = handles]_vars

C16_Witness ==
    /\ EnumerationFailed(last)
    /\ last.op = "attach_to_core"
    /\ last.res = Err("AccessPortError")
    /\ last.depth = 1
    /\ handles.cores = 0

Configured(q) == Has(q, "setup_tracing")

\* C17: setup_tracing enumerates the access ports, walks the component
\* directory at the base address of the port at position core.id(), then
\* configures tracing, in that order.  When the enumeration fails or the
\* directory is malformed it returns that error (the parse error mapped to
\* the architecture-specific error), the configuration is never issued and
\* the tracing state is unchanged; an error of the configuration step is
\* returned as it is.
C17_SetupTracingOrder ==
    /\ [](last.op = "setup_tracing" /\ last.hw # <<>> =>
            LET h == LastHw
                n == last.arg.n
            IN  CASE ~h.ok ->
                        /\ last.res = Err("AccessPortError")
                        /\ last.q = <<"memory_access_ports">>
                  [] h.ok /\ n >= Len(h.maps) ->
                        /\ last.res.tag = "Panic"
                        /\ last.q = <<"memory_access_ports">>
                  [] OTHER ->
                        /\ last.base = h.maps[n + 1]
                        /\ IF last.answers[1] # "ok"
                           THEN /\ last.res = Err("ArchitectureSpecific")
                                /\ last.q = <<"memory_access_ports", "try_parse">>
                           ELSE /\ last.q = <<"memory_access_ports", "try_parse", "setup_tracing">>
                                /\ last.res = IF last.answers[2] # "ok"
                                              THEN Err(last.answers[2]) ELSE OkUnit)
    /\ [][last' # last /\ last'.op = "setup_tracing" /\ last'.res.tag # "Ok"
            => inner' = inner]_vars

C17_Witness ==
    /\ last.op = "setup_tracing"
    /\ last.hw # <<>> /\ LastHw.ok
    /\ last.arg.n = 1
    /\ last.answers = <<"malformed", "ok">>
    /\ last.res = Err("ArchitectureSpecific")
    /\ ~Configured(last.q)
    /\ ~Tracing

\* C18: list_cores always has length 1 and holds the core type of the
\* target, so attach_to_core(n) succeeds only for n = 0; the Core it returns
\* has the target's core type, the memory that attach_to_memory(n) resolves
\* on the same hardware answers, and index n, and it takes over the Session
\* clone made for it.
C18_SingleCore ==
    /\ [](/\ last.op = "list_cores" /\ ~Conflicted(last)
               => /\ Len(last.res.data) = 1
                  /\ last.res.data[1] = TargetCore
          /\ last.op = "attach_to_core" /\ last.res.tag = "Ok"
               => /\ last.arg.n = 0
                  /\ AttachToMemory(LastHw, last.arg.n).res.tag = "Ok"
                  /\ last.res = OkCore(TargetCore,
                                       AttachToMemory(LastHw, last.arg.n).res.mem,
                                       last.arg.n))
    /\ [][(/\ last' # last /\ last'.op = "attach_to_core" /\ last'.res.tag = "Ok"
           /\ handles'.cores = handles.cores + 1)
            => strong' = strong /\ strong' = Live' + TempClones' /\ inner' = inner]_vars

C18_Witness ==
    /\ last.op = "attach_to_core"
    /\ last.arg.n = 0
    /\ last.res = OkCore(TargetCore, APMem(1), 0)
    /\ handles.cores >= 1

\* C19: attach_to_specific_core(core_type) does not consult the core list:
\* for every core type, also one that is not the target's, it never fails
\* with CoreNotFound, it asks the hardware what attach_to_memory(0) asks and
\* ends as attach_to_memory(0) ends, except that on success it returns a
\* Core with the caller's core type, that memory and index 0.
C19_SpecificCore ==
    /\ last.op = "attach_to_specific_core" => last.res.err # "CoreNotFound"
    /\ last.op = "attach_to_specific_core" /\ last.hw # <<>> =>
            LET m == AttachToMemory(LastHw, 0) IN
            /\ last.q = m.q
            /\ last.res = IF m.res.tag = "Ok"
                          THEN OkCore(last.arg.ct, m.res.mem, 0)
                          ELSE m.res

C19_Witness ==
    /\ last.op = "attach_to_specific_core"
    /\ last.res.tag = "Ok"
    /\ last.res.ct = last.arg.ct
    /\ last.arg.ct # TargetCore
    /\ last.res.n = 0

\* C20: the access windows are balanced: when no call is in progress no
\* window is open; a call begun with no call in progress is never rejected
\* by a window of its own, because it opens its windows one after the
\* other, each on a Session with no window open; so on every way out, with
\* a result or an error, the next operation finds no window open.
C20_Balanced ==
    /\ stack = <<>> => flag = 0
    /\ Len(stack) = 1 /\ Top.at = "borrow" => flag = 0
    /\ Len(stack) = 1 /\ Top.at = "in" =>
            flag = IF WindowKind(Top.ph) = "shared" THEN 1 ELSE -1
    /\ last.depth = 1 => ~Conflicted(last)

C20_Witness ==
    /\ last.op = "attach_to_core"
    /\ last.res.tag = "Ok"
    /\ last.depth = 1
    /\ stack = <<>>
    /\ flag = 0
====
